---- MODULE Spec2Model ----
(***************************************************************************)
(* Model of robocluster-manager's sync module (src/sync.py): the socket    *)
(* event loops BaseSocketLoop / JSONSocketLoop, the roles ServiceLoop      *)
(* (advertise) and ServerLoop (discover, server, handler), and the asyncio *)
(* scheduling (ready queue, selector readers/writers, timers, futures,     *)
(* task cancellation) that the module's code drives; and of the process    *)
(* manager (src/ProcessManager.py): RoboProcess and ProcessManager with    *)
(* the OS processes they launch, signal and wait for.                      *)
(***************************************************************************)
EXTENDS Integers, Sequences, FiniteSets, TLC

(***************************************************************************)
(* Bounds of the model.                                                    *)
(***************************************************************************)
\* connections that reach the TCP listener during one run
MaxConns == 2
\* calls of close() made on one loop (explicit close + scope exit)
MaxCloses == 2
\* OS processes launched (Popen calls that succeed) during one run
MaxLaunches == 4

\* x evaluated once, its value handed to F
Bind(x, F(_)) == CHOOSE r \in {F(y) : y \in {x}} : TRUE

(***************************************************************************)
(* Codec: JSONSocketLoop.decode / JSONSocketLoop.encode.                   *)
(* Python values are tagged records; None (also what json "null" decodes   *)
(* to, and what decode returns on JSONDecodeError) is PyNone.              *)
(* The parser covers the JSON subset without arrays, escapes and exponents.*)
(***************************************************************************)
PyNone == [t |-> "null"]
JBool(b) == [t |-> "bool", b |-> b]
JNum(n) == [t |-> "num", n |-> n]
\* a float: integer part and the digit characters of its fraction
JFloat(i, f) == [t |-> "float", i |-> i, f |-> f]
JStr(s) == [t |-> "str", s |-> s]
JObj(o) == [t |-> "obj", o |-> o]

\* a faulty variant of Truthy: the test `if not data` left out
AlwaysTruthy(v) == TRUE

\* Python truth value (the `if not data` tests)
Truthy(v) ==
    CASE v.t = "null" -> FALSE
      [] v.t = "bool" -> v.b
      [] v.t = "num" -> v.n # 0
      [] v.t = "float" -> v.i # 0 \/ \E k \in 1..Len(v.f) : v.f[k] # 48
      [] v.t = "str" -> v.s # <<>>
      [] v.t = "obj" -> v.o # <<>>

IsDigit(c) == c >= 48 /\ c <= 57
IsSpace(c) == c \in {32, 9, 10, 13}

\* json.detect_encoding: BOMs and NUL patterns select a UTF-16/32 codec
DetectEncoding(b) ==
    IF Len(b) >= 2 /\ ((b[1] = 255 /\ b[2] = 254) \/ (b[1] = 254 /\ b[2] = 255))
    THEN "utf-16"
    ELSE IF Len(b) >= 3 /\ b[1] = 239 /\ b[2] = 187 /\ b[3] = 191 THEN "utf-8-sig"
    ELSE IF \E k \in 1..Len(b) : k <= 4 /\ b[k] = 0 THEN "utf-16/32"
    ELSE "utf-8"

\* bytes.decode('utf-8'): one- and two-byte sequences; any other lead or
\* continuation byte is a UnicodeDecodeError
RECURSIVE Utf8Decode(_, _, _)
Utf8Decode(b, i, acc) ==
    IF i > Len(b) THEN [ok |-> TRUE, text |-> acc]
    ELSE IF b[i] < 128 THEN Utf8Decode(b, i + 1, Append(acc, b[i]))
    ELSE IF b[i] >= 194 /\ b[i] <= 223 /\ i + 1 <= Len(b)
            /\ b[i + 1] >= 128 /\ b[i + 1] <= 191
         THEN Utf8Decode(b, i + 2, Append(acc, (b[i] - 192) * 64 + (b[i + 1] - 128)))
    ELSE [ok |-> FALSE, text |-> <<>>]

RECURSIVE SkipWs(_, _)
SkipWs(s, i) == IF i <= Len(s) /\ IsSpace(s[i]) THEN SkipWs(s, i + 1) ELSE i

RECURSIVE ScanDigits(_, _)
\* index just past the run of digits starting at i
ScanDigits(s, i) == IF i <= Len(s) /\ IsDigit(s[i]) THEN ScanDigits(s, i + 1) ELSE i

RECURSIVE DigitsValue(_, _, _, _)
DigitsValue(s, i, e, acc) ==
    IF i >= e THEN acc ELSE DigitsValue(s, i + 1, e, acc * 10 + (s[i] - 48))

ScanFail == [ok |-> FALSE, v |-> PyNone, e |-> 0]
ScanOk(v, e) == [ok |-> TRUE, v |-> v, e |-> e]

HasAt(s, i, w) ==
    /\ i + Len(w) - 1 <= Len(s)
    /\ \A k \in 1..Len(w) : s[i + k - 1] = w[k]

\* a number: int part without leading zeros, optional fraction
ScanNumber(s, i) ==
    LET fraction(e0, e2) ==
            IF e0 <= Len(s) /\ s[e0] = 46 /\ e2 > e0 + 1
            THEN ScanOk(JFloat(DigitsValue(s, i, e0, 0), SubSeq(s, e0 + 1, e2 - 1)), e2)
            ELSE ScanOk(JNum(DigitsValue(s, i, e0, 0)), e0)
        integer(e1) ==
            IF e1 = i THEN ScanFail
            ELSE Bind(IF s[i] = 48 THEN i + 1 ELSE e1,
                      LAMBDA e0 : Bind(ScanDigits(s, e0 + 1), LAMBDA e2 : fraction(e0, e2)))
    IN  Bind(ScanDigits(s, i), integer)

RECURSIVE StringEnd(_, _)
\* index of the closing quote of a string whose body starts at i, 0 if none
StringEnd(s, i) ==
    IF i > Len(s) \/ s[i] = 92 \/ s[i] < 32 THEN 0
    ELSE IF s[i] = 34 THEN i
    ELSE StringEnd(s, i + 1)

RECURSIVE ScanOnce(_, _)
RECURSIVE ScanPairs(_, _, _)
\* the members of an object, i at the opening quote of a key
ScanPairs(s, i, acc) ==
    LET member(q, r, n) ==
            IF ~r.ok \/ n > Len(s) THEN ScanFail
            ELSE IF s[n] = 125
            THEN ScanOk(JObj(Append(acc, <<SubSeq(s, i + 1, q - 1), r.v>>)), n + 1)
            ELSE IF s[n] = 44
            THEN Bind(SkipWs(s, n + 1),
                      LAMBDA j : Bind(Append(acc, <<SubSeq(s, i + 1, q - 1), r.v>>),
                                      LAMBDA acc2 : ScanPairs(s, j, acc2)))
            ELSE ScanFail
        value(q, r) == Bind(IF r.ok THEN SkipWs(s, r.e) ELSE 0, LAMBDA n : member(q, r, n))
        colon(q, c) ==
            IF q = 0 \/ c > Len(s) \/ s[c] # 58 THEN ScanFail
            ELSE Bind(SkipWs(s, c + 1),
                      LAMBDA j : Bind(ScanOnce(s, j), LAMBDA r : value(q, r)))
        key(q) == Bind(SkipWs(s, q + 1), LAMBDA c : colon(q, c))
    IN  IF i > Len(s) \/ s[i] # 34 THEN ScanFail
        ELSE Bind(StringEnd(s, i + 1), key)

\* json.scanner.scan_once: one value starting at i
ScanOnce(s, i) ==
    LET string(q) ==
            IF q = 0 THEN ScanFail ELSE ScanOk(JStr(SubSeq(s, i + 1, q - 1)), q + 1)
        object(n) ==
            IF n <= Len(s) /\ s[n] = 125 THEN ScanOk(JObj(<<>>), n + 1)
            ELSE ScanPairs(s, n, <<>>)
    IN  IF i > Len(s) THEN ScanFail
        ELSE IF s[i] = 34 THEN Bind(StringEnd(s, i + 1), string)
        ELSE IF s[i] = 123 THEN Bind(SkipWs(s, i + 1), object)
        ELSE IF HasAt(s, i, <<110, 117, 108, 108>>) THEN ScanOk(PyNone, i + 4)
        ELSE IF HasAt(s, i, <<116, 114, 117, 101>>) THEN ScanOk(JBool(TRUE), i + 4)
        ELSE IF HasAt(s, i, <<102, 97, 108, 115, 101>>) THEN ScanOk(JBool(FALSE), i + 5)
        ELSE IF IsDigit(s[i]) THEN ScanNumber(s, i)
        ELSE ScanFail

\* json.loads on bytes: "unicode" = UnicodeDecodeError, "json" = JSONDecodeError.
\* The UTF-16/32 codecs are not modelled: the packets of the model carry no
\* BOM and no NUL byte.
JsonLoads(b) ==
    LET scanned(text, r) ==
            IF r.ok /\ SkipWs(text, r.e) = Len(text) + 1
            THEN [raised |-> "", v |-> r.v]
            ELSE [raised |-> "json", v |-> PyNone]
        parsed(text) ==
            Bind(SkipWs(text, 1),
                 LAMBDA j : Bind(ScanOnce(text, j), LAMBDA r : scanned(text, r)))
        decoded(u) ==
            IF ~u.ok THEN [raised |-> "unicode", v |-> PyNone]
            ELSE Bind(u.text, parsed)
    IN  IF DetectEncoding(b) # "utf-8" THEN [raised |-> "json", v |-> PyNone]
        ELSE Bind(Utf8Decode(b, 1, <<>>), decoded)

\* JSONSocketLoop.decode: only json.JSONDecodeError is caught
decode(packet) ==
    LET loaded(r) == IF r.raised = "json" THEN [raised |-> "", v |-> PyNone] ELSE r
    IN  Bind(JsonLoads(packet), loaded)

RECURSIVE DigitsOf(_)
DigitsOf(n) == IF n < 10 THEN <<48 + n>> ELSE Append(DigitsOf(n \div 10), 48 + (n % 10))

RECURSIVE Dumps(_)
RECURSIVE DumpPairs(_, _)
DumpPairs(o, k) ==
    IF k > Len(o) THEN <<>>
    ELSE (IF k > 1 THEN <<44, 32>> ELSE <<>>)
         \o <<34>> \o o[k][1] \o <<34, 58, 32>> \o Dumps(o[k][2])
         \o DumpPairs(o, k + 1)

\* json.dumps with the default separators
Dumps(v) ==
    CASE v.t = "null" -> <<110, 117, 108, 108>>
      [] v.t = "bool" -> IF v.b THEN <<116, 114, 117, 101>> ELSE <<102, 97, 108, 115, 101>>
      [] v.t = "num" -> DigitsOf(v.n)
      [] v.t = "float" -> DigitsOf(v.i) \o <<46>> \o v.f
      [] v.t = "str" -> <<34>> \o v.s \o <<34>>
      [] v.t = "obj" -> <<123>> \o DumpPairs(v.o, 1) \o <<125>>

\* JSONSocketLoop.encode: json.dumps(packet).encode('utf-8'); dumps escapes
\* every non-ASCII character, so each character is one byte
encode(packet) == Dumps(packet)

(***************************************************************************)
(* Tasks, sockets, futures.                                                *)
(* A socket is named by the task that owns it; <<"base">> is the socket of *)
(* a program that calls BaseSocketLoop.sendto directly.                    *)
(***************************************************************************)
Discover == <<"discover">>
Server == <<"server">>
Advertise == <<"advertise">>
Base == <<"base">>
HandlerOf(i) == <<"handler", i>>
Handlers == {HandlerOf(i) : i \in 1..MaxConns}
Tasks == {Discover, Server, Advertise} \cup Handlers
Socks == Tasks \cup {Base}
\* a future is named by the task (or caller) that created it; the second
\* name serves while something still refers to the owner's previous future
FutIds == Socks \X {1, 2}
NoFut == <<>>

\* the datagrams and stream payloads the peers send
PresenceBytes == <<123, 34, 116, 105, 109, 101, 34, 58, 32, 49, 46, 53, 125>>
NotJsonBytes == <<123, 110>>
BadUtf8Bytes == <<255>>
EmptyObjBytes == <<123, 125>>
NullBytes == <<110, 117, 108, 108>>
Packets == {<<>>, NotJsonBytes, BadUtf8Bytes, EmptyObjBytes, NullBytes, PresenceBytes}
\* time(): the readings of the clock
Times == {JFloat(1, <<53>>)}
PresenceMessage(now) == JObj(<< <<<<116, 105, 109, 101>>, now>> >>)

VARIABLES
    traffic,     \* which peers are active in this run: "udp" or "tcp"
    role,        \* the program: "server" (ServerLoop), "service" (ServiceLoop),
                 \* "base" (BaseSocketLoop), "manager" (ProcessManager)
    loopSt,      \* "new", "running" (inside run_forever), "stopped", "closed"
    runner,      \* who called run_forever: "run" or "close"
    stopping,    \* loop._stopping
    ntodo,       \* handles of the current _run_once pass still to run
    didPass,     \* a pass of the current run_forever call has completed
    closePasses, \* passes run by close()'s run_forever
    closes,      \* calls of close() so far
    closeErr,    \* a close() call raised
    tasks,       \* task -> [st, pc, waiter, mustCancel, out]
    fut,         \* future -> [st, v, n, b, last]
    ready,       \* loop._ready: sequence of handles
    readers,     \* socket -> future of the registered read callback
    writers,     \* socket -> [f, d] of the registered write callback
    timer,       \* the call_later handle of asyncio.sleep
    sock,        \* socket -> "none", "open", "closed"
    readable,    \* socket -> a datagram, stream data, EOF or an error is pending
    backlog,     \* connections waiting in the listener's queue
    arrived,     \* connections that have reached the listener
    nacc,        \* connections accepted
    writable,    \* the datagram socket's send buffer has room
    log,         \* exceptions the loop's exception handler has logged
    step,        \* what the last step did: [wrote, dec, print, ret, who, from, got]
    processes,   \* ProcessManager.processes: the names, in insertion order
    popen,       \* name -> RoboProcess.popen: 0 (None) or the pid of its Popen
    os,          \* the OS processes launched: pid -> [owner, st]
    mgr,         \* the manager's with block: "open" or "exited"
    call         \* what the last call did: [op, n, was, raised, sigs, launched]

ManagerVars == <<processes, popen, os, mgr, call>>

vars == <<traffic, role, loopSt, runner, stopping, ntodo, didPass, closePasses, closes,
          closeErr, tasks, fut, ready, readers, writers, timer, sock, readable,
          backlog, arrived, nacc, writable, log, step, ManagerVars>>

NoTask == [st |-> "none", pc |-> "start", waiter |-> NoFut, mustCancel |-> FALSE, out |-> ""]
FutFree == [st |-> "free", v |-> PyNone, n |-> 0, b |-> 0, last |-> "new"]
FutNew == [st |-> "pending", v |-> PyNone, n |-> 0, b |-> 0, last |-> "new"]
NoReg == [f |-> NoFut, d |-> PyNone]
NoTimer == [st |-> "off", f |-> NoFut]
NoDec == [k |-> "none", p |-> <<>>, raised |-> "", v |-> PyNone]
\* who: the task that ran, from: the await it resumed from, got: the value
\* the await returned (None when it raised)
NoStep ==
    [wrote |-> FALSE, dec |-> NoDec, print |-> FALSE, ret |-> "",
     who |-> <<>>, from |-> "", got |-> PyNone]
Handle(k, id, f, d) == [k |-> k, id |-> id, f |-> f, d |-> d, c |-> FALSE]

\* the part of the state the program's code reads and writes, as one record
Cur ==
    [tasks |-> tasks, fut |-> fut, ready |-> ready, readers |-> readers,
     writers |-> writers, timer |-> timer, sock |-> sock, readable |-> readable,
     backlog |-> backlog, nacc |-> nacc, log |-> log, step |-> NoStep]

RangeOf(q) == {q[i] : i \in 1..Len(q)}

\* the futures something still refers to; the others are garbage
Refs(S) ==
    ({S.tasks[t].waiter : t \in Tasks}
        \cup {S.readers[s] : s \in Socks}
        \cup {S.writers[s].f : s \in Socks}
        \cup {h.f : h \in {x \in RangeOf(S.ready) : ~x.c}}
        \cup {S.timer.f}) \ {NoFut}

Collect(S) ==
    LET kept(R) == [S EXCEPT !.fut = [f \in FutIds |-> IF f \in R THEN S.fut[f] ELSE FutFree]]
    IN  Bind(Refs(S), kept)

Apply(S0) ==
    \E S1 \in {S0} :
       \E S \in {Collect(S1)} :
          /\ tasks' = S.tasks
          /\ fut' = S.fut
          /\ ready' = S.ready
          /\ readers' = S.readers
          /\ writers' = S.writers
          /\ timer' = S.timer
          /\ sock' = S.sock
          /\ readable' = S.readable
          /\ backlog' = S.backlog
          /\ nacc' = S.nacc
          /\ log' = S.log
          /\ step' = S.step

\* loop.create_future(): a future nothing refers to yet
NewFut(S, owner) == IF <<owner, 1>> \in Refs(S) THEN <<owner, 2>> ELSE <<owner, 1>>

Logged(S, e) == [S EXCEPT !.log = @ \cup {e}]

\* Future._schedule_callbacks: call_soon(task._wakeup) for the awaiting task
Wake(S, f) ==
    LET woken(ws) ==
            IF ws = {} THEN S
            ELSE LET t == CHOOSE t \in ws : TRUE
                 IN  [S EXCEPT !.tasks[t].st = "ready",
                               !.ready = Append(@, Handle("task", t, NoFut, PyNone))]
    IN  Bind({t \in Tasks : S.tasks[t].waiter = f /\ S.tasks[t].st = "waiting"}, woken)

\* Future.set_result / set_exception: InvalidStateError unless pending
Resolve(S, f, st, v) ==
    IF S.fut[f].st # "pending" THEN [S EXCEPT !.fut[f].n = IF @ < 2 THEN @ + 1 ELSE @]
    ELSE Bind([S EXCEPT !.fut[f].n = IF @ < 2 THEN @ + 1 ELSE @,
                        !.fut[f].st = st, !.fut[f].v = v],
              LAMBDA S1 : Wake(S1, f))
Invalid(S, f) == S.fut[f].st # "pending"

\* a faulty variant of CancelQueued: a queued handle of a replaced or
\* removed callback still runs
KeepQueued(S, k, id) == S

\* Handle.cancel() of the handles queued for a registration
CancelQueued(S, k, id) ==
    [S EXCEPT !.ready = [i \in 1..Len(@) |->
        IF @[i].k = k /\ @[i].id = id THEN [@[i] EXCEPT !.c = TRUE] ELSE @[i]]]

\* a faulty variant of RemoveReader: the callback stays registered
KeepReader(S, s) == S

\* loop.remove_reader / remove_writer (of an open socket)
RemoveReader(S, s) == [CancelQueued(S, "reader", s) EXCEPT !.readers[s] = NoFut]
RemoveWriter(S, s) == [CancelQueued(S, "writer", s) EXCEPT !.writers[s] = NoReg]
\* loop.add_reader / add_writer: replaces the callback registered before
AddReader(S, s, f) == [CancelQueued(S, "reader", s) EXCEPT !.readers[s] = f]
AddWriter(S, s, f, d) ==
    [CancelQueued(S, "writer", s) EXCEPT !.writers[s] = [f |-> f, d |-> d]]

Min(a, b) == IF a < b THEN a ELSE b
\* the ghost fields of a future: would-blocks so far (0, 1, 2 = more than
\* one), the outcome of the last attempt
Blocked(S, f) == [S EXCEPT !.fut[f].b = Min(@ + 1, 2), !.fut[f].last = "block"]
Attempted(S, f, how) == [S EXCEPT !.fut[f].last = how]

Ret(S, ret, exc) == [S |-> S, ret |-> ret, exc |-> exc]
Exc(e) == [t |-> "exc", e |-> e]
\* the ghost of a call of self.decode: the packet and what came of it (d)
Decoded(S, p, d) ==
    [S EXCEPT !.step.dec = [k |-> "applied", p |-> p, raised |-> d.raised, v |-> d.v]]

(***************************************************************************)
(* What a non-blocking socket call finds is an input x of the step:        *)
(* [k |-> "pkt", p |-> bytes] (data; for accept a connection, for sendto   *)
(* the datagram was taken), [k |-> "err"] (OSError) or [k |-> "block"]     *)
(* (BlockingIOError).  A read of a socket with nothing pending blocks; a   *)
(* read of a readable datagram socket may block all the same (the datagram *)
(* was dropped since); accept with a connection pending does not block.    *)
(***************************************************************************)
Inputs ==
    {[k |-> "pkt", p |-> p, now |-> now] : p \in Packets, now \in Times}
        \cup {[k |-> c, p |-> <<>>, now |-> now] : c \in {"err", "block"}, now \in Times}

ReadFinds(S, s, x) == IF S.readable[s] THEN x.k ELSE "block"
AcceptFinds(S, x) ==
    IF S.backlog = 0 THEN "block" ELSE IF x.k = "err" THEN "err" ELSE "pkt"
SendFinds(x) == IF writable THEN x.k ELSE "block"
Taken(S, s) == [S EXCEPT !.readable[s] = FALSE]

(***************************************************************************)
(* BaseSocketLoop.recvfrom(sock, future): f0 = NoFut is future=None.       *)
(* Returns [S, ret, exc]: the state, the future returned, what it raised.  *)
(***************************************************************************)
recvfrom(S, s, f0, x) ==
    LET received(f, S2, d) ==
            IF d.raised # "" THEN Ret(Attempted(S2, f, "err"), f, "UnicodeDecodeError")
            ELSE IF Invalid(S2, f)
            THEN Ret(Resolve(S2, f, "result", d.v), f, "InvalidStateError")
            ELSE Ret(Attempted(Resolve(S2, f, "result", d.v), f, "ok"), f, "")
        decoded(f, S1, d) ==
            Bind(Decoded(Taken(S1, s), x.p, d), LAMBDA S2 : received(f, S2, d))
        attempt(f, S1) ==
            IF S.sock[s] # "open"
            THEN \* fileno() is -1: remove_reader(-1) raises ValueError, recvfrom EBADF
                 IF f0 # NoFut THEN Ret(S, f, "ValueError") ELSE Ret(S1, f, "OSError")
            ELSE IF ReadFinds(S, s, x) = "block"
            THEN Ret(Blocked(AddReader(Taken(S1, s), s, f), f), f, "")
            ELSE IF ReadFinds(S, s, x) = "err"
            THEN Ret(Attempted(Taken(S1, s), f, "err"), f, "OSError")
            ELSE Bind(decode(x.p), LAMBDA d : decoded(f, S1, d))
        entered(f) ==
            Bind(IF f0 = NoFut THEN [S EXCEPT !.fut[f] = FutNew] ELSE RemoveReader(S, s),
                 LAMBDA S1 : attempt(f, S1))
    IN  Bind(IF f0 = NoFut THEN NewFut(S, s) ELSE f0, entered)

(***************************************************************************)
(* BaseSocketLoop.sendto(sock, data, address, future); ret NoFut is None.  *)
(***************************************************************************)
sendto(S, s, data, f0, x) ==
    LET nbytes == JNum(Len(encode(data)))
        called(f, S2) ==
            IF S.sock[s] # "open" THEN Ret(S2, f, "OSError")
            ELSE IF SendFinds(x) = "block"
            THEN Ret(Blocked(AddWriter(S2, s, f, data), f), f, "")
            ELSE IF SendFinds(x) = "err"
            THEN Ret(Attempted(S2, f, "err"), f, "OSError")
            ELSE IF Invalid(S2, f)
            THEN Ret(Resolve(S2, f, "result", nbytes), f, "InvalidStateError")
            ELSE Ret(Attempted(Resolve(S2, f, "result", nbytes), f, "ok"), f, "")
        attempt(f, S1) ==
            IF S.sock[s] # "open" /\ f0 # NoFut THEN Ret(S, f, "ValueError")
            ELSE IF ~Truthy(data) THEN Ret(S1, NoFut, "")
            ELSE Bind([S1 EXCEPT !.step.wrote = TRUE], LAMBDA S2 : called(f, S2))
        entered(f) ==
            Bind(IF f0 = NoFut THEN [S EXCEPT !.fut[f] = FutNew] ELSE RemoveWriter(S, s),
                 LAMBDA S1 : attempt(f, S1))
    IN  Bind(IF f0 = NoFut THEN NewFut(S, s) ELSE f0, entered)

(***************************************************************************)
(* BaseSocketLoop.accept: loop.sock_accept and its callback _sock_accept.  *)
(***************************************************************************)
SockAccept(S, s, f, registered, x) ==
    LET i == S.nacc + 1
        attempt(S1) ==
            IF S.sock[s] # "open" /\ registered THEN Ret(S, f, "ValueError")
            ELSE IF S.fut[f].st = "cancelled" THEN Ret(S1, f, "")
            ELSE IF S.sock[s] # "open"
            THEN Ret(Resolve(S1, f, "exception", Exc("OSError")), f, "")
            ELSE IF AcceptFinds(S, x) = "block" THEN Ret(AddReader(S1, s, f), f, "")
            ELSE IF AcceptFinds(S, x) = "err"
            THEN Ret(Bind([S1 EXCEPT !.backlog = @ - 1],
                          LAMBDA S2 : Resolve(S2, f, "exception", Exc("OSError"))), f, "")
            ELSE Ret(Bind([S1 EXCEPT !.backlog = @ - 1, !.nacc = i,
                                     !.sock[HandlerOf(i)] = "open"],
                          LAMBDA S2 : Resolve(S2, f, "result", [t |-> "conn", i |-> i])),
                     f, "")
    IN  Bind(IF registered THEN RemoveReader(S, s) ELSE S, attempt)

(***************************************************************************)
(* BaseSocketLoop.recv: loop.sock_recv and its callback _sock_recv.        *)
(* A packet <<>> is the peer's close: recv returns b''.                    *)
(***************************************************************************)
SockRecv(S, s, f, registered, x) ==
    LET attempt(S1) ==
            IF S.sock[s] # "open" /\ registered THEN Ret(S, f, "ValueError")
            ELSE IF S.fut[f].st = "cancelled" THEN Ret(S1, f, "")
            ELSE IF S.sock[s] # "open"
            THEN Ret(Resolve(S1, f, "exception", Exc("OSError")), f, "")
            ELSE IF ReadFinds(S, s, x) = "block"
            THEN Ret(AddReader(Taken(S1, s), s, f), f, "")
            ELSE IF ReadFinds(S, s, x) = "err"
            THEN Ret(Bind(Taken(S1, s),
                          LAMBDA S2 : Resolve(S2, f, "exception", Exc("OSError"))), f, "")
            ELSE Ret(Bind(Taken(S1, s),
                          LAMBDA S2 : Resolve(S2, f, "result", [t |-> "bytes", p |-> x.p])),
                     f, "")
    IN  Bind(IF registered THEN RemoveReader(S, s) ELSE S, attempt)

(***************************************************************************)
(* Coroutines.  A task runs from one await to the next; an await of a      *)
(* future that is already done does not suspend, the task stays "running". *)
(***************************************************************************)
Done(S, t, out) ==
    [S EXCEPT !.tasks[t] = [st |-> "done", pc |-> "end", waiter |-> NoFut,
                            mustCancel |-> FALSE, out |-> out]]

Await(S, t, pc, f) ==
    [S EXCEPT !.tasks[t] = [st |-> IF S.fut[f].st = "pending" THEN "waiting" ELSE "running",
                            pc |-> pc, waiter |-> f, mustCancel |-> FALSE, out |-> ""]]

\* a faulty variant of Printed: the observation is not recorded
NotPrinted(S) == S

Printed(S) == [S EXCEPT !.step.print = TRUE]
\* socket.close(): what the socket had buffered is gone
Closed(S, s) == [S EXCEPT !.sock[s] = "closed", !.readable[s] = FALSE]

\* TimerHandle.cancel() of asyncio.sleep's finally clause
CancelTimer(S) == [CancelQueued(S, "timer", Advertise) EXCEPT !.timer = NoTimer]

\* ServerLoop.discover
discover(S, t, val, inp) ==
    LET start == S.tasks[t].pc = "start"
        awaited(r) ==
            IF r.exc # "" THEN Done(Closed(r.S, t), t, "error")
            ELSE Await(r.S, t, "recvfrom", r.ret)
        entered(S1) ==
            IF start /\ inp.k = "err" THEN Done(Closed(S1, t), t, "error")
            ELSE Bind(recvfrom(S1, t, NoFut, inp), awaited)
    IN  Bind(IF start THEN [S EXCEPT !.sock[t] = "open"]
             ELSE IF Truthy(val) THEN Printed(S) ELSE S, entered)

\* loop.create_task(coro): call_soon(task._step)
CreateTask(S, t) ==
    [S EXCEPT !.tasks[t] = [NoTask EXCEPT !.st = "ready"],
              !.ready = Append(@, Handle("task", t, NoFut, PyNone))]

\* a faulty variant of server: the accepted connection gets no task
serverNoSpawn(S, t, val, inp) ==
    LET start == S.tasks[t].pc = "start"
        awaited(r) == Await(r.S, t, "accept", r.ret)
        entered(S1) ==
            IF start /\ inp.k = "err" THEN Done(Closed(S1, t), t, "error")
            ELSE Bind(NewFut(S1, t),
                      LAMBDA f : Bind(SockAccept([S1 EXCEPT !.fut[f] = FutNew],
                                                 t, f, FALSE, inp), awaited))
    IN  Bind(IF start THEN [S EXCEPT !.sock[t] = "open"] ELSE S, entered)

\* ServerLoop.server
server(S, t, val, inp) ==
    LET start == S.tasks[t].pc = "start"
        awaited(r) == Await(r.S, t, "accept", r.ret)
        entered(S1) ==
            IF start /\ inp.k = "err" THEN Done(Closed(S1, t), t, "error")
            ELSE Bind(NewFut(S1, t),
                      LAMBDA f : Bind(SockAccept([S1 EXCEPT !.fut[f] = FutNew],
                                                 t, f, FALSE, inp), awaited))
    IN  Bind(IF start THEN [S EXCEPT !.sock[t] = "open"]
             ELSE CreateTask(S, HandlerOf(val.i)), entered)

\* ServerLoop.handler, with BaseSocketLoop.recv
handler(S, t, val, inp) ==
    LET awaited(r) == Await(r.S, t, "recv", r.ret)
        received(data) ==
            IF data.raised # "" THEN Done(Closed(Decoded(S, val.p, data), t), t, "error")
            ELSE IF ~Truthy(data.v)
            THEN Done(Closed(Decoded(S, val.p, data), t), t, "returned")
            ELSE Done(Closed(Printed(Decoded(S, val.p, data)), t), t, "returned")
    IN  IF S.tasks[t].pc = "start"
        THEN Bind(NewFut(S, t),
                  LAMBDA f : Bind(SockRecv([S EXCEPT !.fut[f] = FutNew], t, f, FALSE, inp),
                                  awaited))
        ELSE Bind(decode(val.p), received)

\* asyncio.sleep(1): a future and a call_later handle that resolves it
Sleep(S, t) ==
    LET awaited(f) ==
            Await([S EXCEPT !.fut[f] = FutNew, !.timer = [st |-> "armed", f |-> f]],
                  t, "sleep", f)
    IN  Bind(NewFut(S, t), awaited)

\* ServiceLoop.advertise
advertise(S, t, val, inp) ==
    LET start == S.tasks[t].pc = "start"
        awaited(r) ==
            IF r.exc # "" THEN Done(r.S, t, "error")
            ELSE IF r.ret = NoFut THEN Done(r.S, t, "error")
            ELSE Await(r.S, t, "sendto", r.ret)
    IN  IF S.tasks[t].pc = "sendto" THEN Sleep(S, t)
        ELSE Bind(sendto(IF start THEN [S EXCEPT !.sock[t] = "open"] ELSE S,
                         t, PresenceMessage(inp.now), NoFut, inp), awaited)

\* a faulty variant of Unwind: the exception of one task reaches its
\* siblings, which are asked to cancel
UnwindAll(S, t, exc) ==
    [Done(S, t, IF exc = "CancelledError" THEN "cancelled" ELSE "error")
        EXCEPT !.tasks = [u \in Tasks |->
            IF u = t \/ S.tasks[u].st \in {"none", "done"} THEN @[u]
            ELSE [@[u] EXCEPT !.mustCancel = TRUE]]]

\* an exception thrown into the coroutine at its suspension point: the
\* `with` blocks and `finally` clauses it is inside run
Unwind(S, t, exc) ==
    LET pc == S.tasks[t].pc
        S1 == IF t = Advertise THEN (IF pc = "sleep" THEN CancelTimer(S) ELSE S)
              ELSE IF pc # "start" THEN Closed(S, t)
              ELSE S
    IN  Done(S1, t, IF exc = "CancelledError" THEN "cancelled" ELSE "error")

\* Task._step / Task._wakeup
TaskStep(S, t, inp) ==
    LET T == S.tasks[t]
        w == T.waiter
        exc == IF T.st = "ready" /\ T.mustCancel THEN "CancelledError"
               ELSE IF w = NoFut THEN ""
               ELSE IF S.fut[w].st = "cancelled" THEN "CancelledError"
               ELSE IF S.fut[w].st = "exception" THEN S.fut[w].v.e
               ELSE ""
        resumed(S1, val) ==
            IF exc # "" THEN Unwind(S1, t, exc)
            ELSE IF t = Discover THEN discover(S1, t, val, inp)
            ELSE IF t = Server THEN server(S1, t, val, inp)
            ELSE IF t = Advertise THEN advertise(S1, t, val, inp)
            ELSE handler(S1, t, val, inp)
        entered(val) ==
            Bind([S EXCEPT !.tasks[t].waiter = NoFut, !.tasks[t].mustCancel = FALSE,
                           !.tasks[t].st = "running", !.step.who = t,
                           !.step.from = T.pc,
                           !.step.got = IF exc # "" THEN PyNone ELSE val],
                 LAMBDA S1 : resumed(S1, val))
    IN  Bind(IF w # NoFut THEN S.fut[w].v ELSE PyNone, entered)

\* a faulty variant of CancelTask: only a task suspended on a pending
\* future is cancelled
CancelWaitingOnly(S, t) ==
    LET T == S.tasks[t]
    IN  IF T.st \notin {"none", "done"} /\ T.waiter # NoFut /\ S.fut[T.waiter].st = "pending"
        THEN Wake([S EXCEPT !.fut[T.waiter].st = "cancelled"], T.waiter)
        ELSE S

\* a faulty variant of CancelTask: a task whose awaited future is already
\* done is left to resume with the result
CancelUnlessDone(S, t) ==
    LET T == S.tasks[t]
    IN  IF T.st \in {"none", "done"} THEN S
        ELSE IF T.waiter # NoFut /\ S.fut[T.waiter].st = "pending"
        THEN Bind([S EXCEPT !.fut[T.waiter].st = "cancelled"],
                  LAMBDA S1 : Wake(S1, T.waiter))
        ELSE IF T.waiter # NoFut THEN S
        ELSE [S EXCEPT !.tasks[t].mustCancel = TRUE]

\* Task.cancel()
CancelTask(S, t) ==
    LET T == S.tasks[t]
    IN  IF T.st \in {"none", "done"} THEN S
        ELSE IF T.waiter # NoFut /\ S.fut[T.waiter].st = "pending"
        THEN Bind([S EXCEPT !.fut[T.waiter].st = "cancelled"],
                  LAMBDA S1 : Wake(S1, T.waiter))
        ELSE [S EXCEPT !.tasks[t].mustCancel = TRUE]

RECURSIVE CancelAll(_, _)
CancelAll(S, order) ==
    IF order = <<>> THEN S
    ELSE Bind(CancelTask(S, Head(order)), LAMBDA S1 : CancelAll(S1, Tail(order)))

RECURSIVE Perms(_)
\* the orders in which a set may be iterated
Perms(X) ==
    IF X = {} THEN {<<>>}
    ELSE UNION {{<<x>> \o q : q \in Perms(X \ {x})} : x \in X}

(***************************************************************************)
(* The process manager (src/ProcessManager.py).  The state its code reads  *)
(* and writes is one record P: [processes, popen, os, call].               *)
(***************************************************************************)
\* the names of the configuration, and a name no process was created with
ProcNames == {"p1", "p2"}
UnknownName == "px"

NoCall == [op |-> "", n |-> "", was |-> 0, raised |-> "", sigs |-> <<>>, launched |-> <<>>]

\* the base class of an exception class
BaseOf(c) ==
    CASE c = "TimeoutExpired" -> "SubprocessError"
      [] c = "SubprocessError" -> "Exception"
      [] c = "TimeoutError" -> "OSError"
      [] c = "FileNotFoundError" -> "OSError"
      [] c = "OSError" -> "Exception"
      [] c = "KeyError" -> "LookupError"
      [] c = "LookupError" -> "Exception"
      [] c = "ValueError" -> "Exception"
      [] OTHER -> "BaseException"

RECURSIVE IsInstance(_, _)
\* whether `except c` catches an exception of class e
IsInstance(e, c) == e = c \/ (e # "BaseException" /\ IsInstance(BaseOf(e), c))

Raise(P, e) == [P EXCEPT !.call.raised = e]

\* a faulty variant of start: the test of self.popen left out
startAlways(P, n, ok) ==
    IF ~ok THEN Raise(P, "FileNotFoundError")
    ELSE [P EXCEPT !.os = Append(@, [owner |-> n, st |-> "running"]),
                   !.popen[n] = Len(P.os) + 1,
                   !.call.launched = Append(@, n)]

\* RoboProcess.start; ok: Popen finds the program and launches it
start(P, n, ok) ==
    IF P.popen[n] # 0 THEN P
    ELSE IF ~ok THEN Raise(P, "FileNotFoundError")
    ELSE [P EXCEPT !.os = Append(@, [owner |-> n, st |-> "running"]),
                   !.popen[n] = Len(P.os) + 1,
                   !.call.launched = Append(@, n)]

\* Popen.terminate / Popen.kill: returncode is None until a wait succeeds,
\* so the signal is sent
SendSignal(P, pid, sig) == [P EXCEPT !.call.sigs = Append(@, <<pid, sig>>)]

\* Popen.wait(timeout=1): exits says whether the process ends within the
\* timeout once it has the signal; a process that has ended is reaped
Wait(P, pid, exits) ==
    IF P.os[pid].st = "zombie" \/ exits THEN [P EXCEPT !.os[pid].st = "reaped"]
    ELSE Raise(P, "TimeoutExpired")

\* RoboProcess.stop
stop(P, n, exits) ==
    LET pid == P.popen[n]
        cleared(Q) == [Q EXCEPT !.popen[n] = 0]
        killed(Q) == [SendSignal(Q, pid, "SIGKILL") EXCEPT !.os[pid].st = "reaped"]
        waited(Q) ==
            IF Q.call.raised = "" THEN cleared(Q)
            ELSE IF IsInstance(Q.call.raised, "TimeoutError")
            THEN cleared(killed([Q EXCEPT !.call.raised = ""]))
            ELSE Q
    IN  IF pid = 0 THEN P
        ELSE Bind(Wait(SendSignal(P, pid, "SIGTERM"), pid, exits), waited)

\* createProcess
createProcess(P, name, isStr) ==
    IF name \in RangeOf(P.processes) THEN Raise(P, "ValueError")
    ELSE IF ~isStr THEN Raise(P, "ValueError")
    ELSE [P EXCEPT !.processes = Append(@, name)]

\* self.processes[process].start() / .stop() inside try ... except KeyError
Guarded(P, name, method(_, _)) ==
    LET done(Q) ==
            IF Q.call.raised # "" /\ IsInstance(Q.call.raised, "KeyError")
            THEN [Q EXCEPT !.call.raised = ""]
            ELSE Q
    IN  Bind(IF name \in RangeOf(P.processes) THEN method(P, name)
             ELSE Raise(P, "KeyError"), done)

RECURSIVE StartEach(_, _, _)
\* the for loop of ProcessManager.start
StartEach(P, names, ok) ==
    IF names = <<>> \/ P.call.raised # "" THEN P
    ELSE Bind(Guarded(P, Head(names), LAMBDA Q, n : start(Q, n, ok[n])),
              LAMBDA Q : StartEach(Q, Tail(names), ok))

RECURSIVE StopEach(_, _, _)
\* the for loop of ProcessManager.stop
StopEach(P, names, exits) ==
    IF names = <<>> \/ P.call.raised # "" THEN P
    ELSE Bind(Guarded(P, Head(names), LAMBDA Q, n : stop(Q, n, exits[n])),
              LAMBDA Q : StopEach(Q, Tail(names), exits))

\* names if names else self.processes.keys()
Selected(P, names) == IF names = <<>> THEN P.processes ELSE names

(***************************************************************************)
(* The initial state: a loop object, or a process manager without a        *)
(* configuration file, just constructed.                                   *)
(***************************************************************************)
Init ==
    /\ role \in {"server", "service", "base", "manager"}
    /\ traffic \in (IF role = "server" THEN {"udp", "tcp"} ELSE {"udp"})
    /\ loopSt = "new"
    /\ runner = "run"
    /\ stopping = FALSE
    /\ ntodo = 0
    /\ didPass = FALSE
    /\ closePasses = 0
    /\ closes = 0
    /\ closeErr = FALSE
    /\ tasks = [t \in Tasks |-> NoTask]
    /\ fut = [f \in FutIds |-> FutFree]
    /\ ready = <<>>
    /\ readers = [s \in Socks |-> NoFut]
    /\ writers = [s \in Socks |-> NoReg]
    /\ timer = NoTimer
    /\ sock = [s \in Socks |-> "none"]
    /\ readable = [s \in Socks |-> FALSE]
    /\ backlog = 0
    /\ arrived = 0
    /\ nacc = 0
    /\ writable = TRUE
    /\ log = {}
    /\ step = NoStep
    /\ processes = <<>>
    /\ popen = [n \in ProcNames |-> 0]
    /\ os = <<>>
    /\ mgr = "open"
    /\ call = NoCall

LoopVars == <<loopSt, runner, stopping, ntodo, didPass, closePasses, closes, closeErr>>
EnvVars == <<traffic, arrived, writable>>

\* ServerLoop.run / ServiceLoop.run / BaseSocketLoop.run, up to run_forever
Run ==
    /\ role # "manager"
    /\ loopSt = "new"
    /\ \E S \in {Cur} :
          Apply(IF role = "server" THEN CreateTask(CreateTask(S, Discover), Server)
                ELSE IF role = "service" THEN CreateTask(S, Advertise)
                ELSE S)
    /\ loopSt' = "running"
    /\ runner' = "run"
    /\ didPass' = FALSE
    /\ ntodo' = 0
    /\ UNCHANGED <<ManagerVars, role, stopping, closePasses, closes, closeErr, EnvVars>>

Readable(s) ==
    /\ sock[s] = "open"
    /\ readable[s] \/ (s = Server /\ backlog > 0)

ReadEvents == {<<"reader", s>> : s \in {x \in Socks : readers[x] # NoFut /\ Readable(x)}}
WriteEvents ==
    {<<"writer", s>> : s \in {x \in Socks : writers[x].f # NoFut /\ sock[x] = "open"
                                            /\ writable}}

EventHandle(e) ==
    IF e[1] = "reader" THEN Handle("reader", e[2], readers[e[2]], PyNone)
    ELSE Handle("writer", e[2], writers[e[2]].f, writers[e[2]].d)

\* the first half of loop._run_once: select, _process_events, due timers
Poll ==
    /\ loopSt = "running"
    /\ ntodo = 0
    /\ ~(stopping /\ didPass)
    /\ ready # <<>> \/ ReadEvents # {} \/ WriteEvents # {} \/ timer.st = "due" \/ stopping
    /\ \E order \in Perms(ReadEvents \cup WriteEvents) :
          LET evs == [i \in 1..Len(order) |-> EventHandle(order[i])]
              tms == IF timer.st = "due"
                     THEN <<Handle("timer", Advertise, timer.f, PyNone)>> ELSE <<>>
              S == [Cur EXCEPT !.ready = @ \o evs \o tms,
                               !.timer = IF timer.st = "due" THEN NoTimer ELSE @]
          IN  /\ Apply(S)
              /\ ntodo' = Len(S.ready)
              /\ didPass' = (didPass \/ Len(S.ready) = 0)
    /\ closePasses' = IF runner = "close" THEN Min(closePasses + 1, 2) ELSE closePasses
    /\ UNCHANGED <<ManagerVars, role, loopSt, runner, stopping, closes, closeErr, EnvVars>>

Pop(S) == [S EXCEPT !.ready = Tail(@)]

\* a handle of a task runs: Task._step up to the coroutine's next await
RunTask ==
    /\ loopSt = "running"
    /\ ntodo > 0
    /\ Head(ready).k = "task"
    /\ \E inp \in Inputs, t \in {Head(ready).id}, S0 \in {Cur} :
          \E S \in {TaskStep(S0, t, inp)} :
             \E cont \in {S.tasks[t].st = "running"} :
                /\ Apply(IF cont THEN S ELSE Pop(S))
                /\ ntodo' = IF cont THEN ntodo ELSE ntodo - 1
                /\ didPass' = (didPass \/ (~cont /\ ntodo = 1))
    /\ UNCHANGED <<ManagerVars, role, loopSt, runner, stopping, closePasses, closes, closeErr, EnvVars>>

\* Handle._run: an exception of the callback goes to the exception handler
Callback(S, h, x) ==
    LET ran(r) == IF r.exc # "" THEN Logged(r.S, r.exc) ELSE r.S
    IN  IF h.c THEN S
        ELSE IF h.k = "writer" THEN ran(sendto(S, h.id, h.d, h.f, x))
        ELSE IF h.id = Discover THEN ran(recvfrom(S, h.id, h.f, x))
        ELSE IF h.id = Server THEN ran(SockAccept(S, h.id, h.f, TRUE, x))
        ELSE ran(SockRecv(S, h.id, h.f, TRUE, x))

\* a read- or write-readiness callback runs
RunCallback ==
    /\ loopSt = "running"
    /\ ntodo > 0
    /\ Head(ready).k \in {"reader", "writer"}
    /\ \E inp \in Inputs, S \in {Pop(Cur)} : Apply(Callback(S, Head(ready), inp))
    /\ ntodo' = ntodo - 1
    /\ didPass' = (didPass \/ ntodo = 1)
    /\ UNCHANGED <<ManagerVars, role, loopSt, runner, stopping, closePasses, closes, closeErr, EnvVars>>

\* the timer of asyncio.sleep runs: futures._set_result_unless_cancelled
RunTimer ==
    /\ loopSt = "running"
    /\ ntodo > 0
    /\ Head(ready).k = "timer"
    /\ LET h == Head(ready)
           S == Pop(Cur)
       IN  Apply(IF h.c \/ S.fut[h.f].st = "cancelled" THEN S
                 ELSE Resolve(S, h.f, "result", PyNone))
    /\ ntodo' = ntodo - 1
    /\ didPass' = (didPass \/ ntodo = 1)
    /\ UNCHANGED <<ManagerVars, role, loopSt, runner, stopping, closePasses, closes, closeErr, EnvVars>>

NoneRunning == \A t \in Tasks : tasks[t].st # "running"

\* KeyboardInterrupt ends run_forever (between two callbacks)
Interrupt ==
    /\ loopSt = "running"
    /\ runner = "run"
    /\ NoneRunning
    /\ loopSt' = "stopped"
    /\ stopping' = FALSE
    /\ ntodo' = 0
    /\ step' = NoStep
    /\ UNCHANGED <<ManagerVars, role, runner, didPass, closePasses, closes, closeErr, tasks, fut,
                   ready, readers, writers, timer, sock, readable, backlog, nacc, log,
                   EnvVars>>

\* BaseSocketLoop.close, up to its run_forever (or to the RuntimeError that
\* run_forever raises on a closed loop)
close ==
    /\ role # "manager"
    /\ loopSt \in {"new", "stopped", "closed"}
    /\ closes < MaxCloses
    /\ closes' = closes + 1
    /\ stopping' = TRUE
    /\ \E order \in Perms({t \in Tasks : tasks[t].st \notin {"none", "done"}}), S \in {Cur} :
          Apply(CancelAll(S, order))
    /\ IF loopSt = "closed"
       THEN /\ closeErr' = TRUE
            /\ UNCHANGED <<loopSt, runner, didPass, closePasses, ntodo>>
       ELSE /\ loopSt' = "running"
            /\ runner' = "close"
            /\ didPass' = FALSE
            /\ closePasses' = 0
            /\ ntodo' = 0
            /\ UNCHANGED closeErr
    /\ UNCHANGED <<ManagerVars, role, EnvVars>>

\* run_forever returns after a pass that finds _stopping set; in close(),
\* loop.close() follows
RunForeverReturn ==
    /\ loopSt = "running"
    /\ ntodo = 0
    /\ stopping
    /\ didPass
    /\ stopping' = FALSE
    /\ IF runner = "close"
       THEN /\ loopSt' = "closed"
            /\ Apply([Cur EXCEPT !.ready = <<>>,
                                 !.readers = [s \in Socks |-> NoFut],
                                 !.writers = [s \in Socks |-> NoReg],
                                 !.timer = NoTimer])
       ELSE /\ loopSt' = "stopped"
            /\ Apply(Cur)
    /\ UNCHANGED <<ManagerVars, role, runner, ntodo, didPass, closePasses, closes, closeErr, EnvVars>>

(***************************************************************************)
(* Direct use of the loop's API (role "base").                             *)
(***************************************************************************)
BaseData == {PyNone, JObj(<<>>), JNum(0)} \cup {PresenceMessage(now) : now \in Times}

\* BaseSocketLoop.socket
BaseSocket ==
    /\ role = "base"
    /\ sock[Base] = "none"
    /\ loopSt = "new"
    /\ Apply([Cur EXCEPT !.sock[Base] = "open"])
    /\ UNCHANGED <<ManagerVars, role, LoopVars, EnvVars>>

\* a call loop.sendto(sock, data, address) made while the loop is not running
BaseSendto(data) ==
    /\ role = "base"
    /\ sock[Base] = "open"
    /\ loopSt \in {"new", "stopped"}
    /\ \E inp \in Inputs, S \in {Cur} :
          \E r \in {sendto(S, Base, data, NoFut, inp)} :
             Apply([r.S EXCEPT !.step.ret = IF r.exc # "" THEN r.exc
                                            ELSE IF r.ret = NoFut THEN "None"
                                            ELSE "future"])
    /\ UNCHANGED <<ManagerVars, role, LoopVars, EnvVars>>

(***************************************************************************)
(* The environment: peers, the kernel's buffers, the clock.                *)
(***************************************************************************)
Alive == loopSt # "closed"

\* a datagram (or an asynchronous socket error) reaches the discover socket
Datagram ==
    /\ Alive
    /\ traffic = "udp"
    /\ sock[Discover] = "open"
    /\ ~readable[Discover]
    /\ readable' = [readable EXCEPT ![Discover] = TRUE]
    /\ step' = NoStep
    /\ UNCHANGED <<ManagerVars, role, LoopVars, EnvVars, tasks, fut, ready, readers, writers, timer,
                   sock, backlog, nacc, log>>

\* a client connects to the listener
Connect ==
    /\ Alive
    /\ traffic = "tcp"
    /\ sock[Server] = "open"
    /\ arrived < MaxConns
    /\ arrived' = arrived + 1
    /\ backlog' = backlog + 1
    /\ step' = NoStep
    /\ UNCHANGED <<ManagerVars, role, LoopVars, traffic, writable, tasks, fut, ready, readers, writers,
                   timer, sock, readable, nacc, log>>

\* the client of an accepted connection sends, closes, or resets
PeerSends ==
    /\ Alive
    /\ \E i \in 1..MaxConns :
          /\ sock[HandlerOf(i)] = "open"
          /\ ~readable[HandlerOf(i)]
          /\ readable' = [readable EXCEPT ![HandlerOf(i)] = TRUE]
    /\ step' = NoStep
    /\ UNCHANGED <<ManagerVars, role, LoopVars, EnvVars, tasks, fut, ready, readers, writers, timer,
                   sock, backlog, nacc, log>>

\* the send buffer of the datagram socket fills or drains
SendBuffer ==
    /\ Alive
    /\ \E s \in {Advertise, Base} : sock[s] = "open"
    /\ writable' = ~writable
    /\ step' = NoStep
    /\ UNCHANGED <<ManagerVars, role, LoopVars, traffic, arrived, tasks, fut, ready, readers, writers,
                   timer, sock, readable, backlog, nacc, log>>

\* the delay of asyncio.sleep(1) elapses
Tick ==
    /\ Alive
    /\ timer.st = "armed"
    /\ timer' = [timer EXCEPT !.st = "due"]
    /\ step' = NoStep
    /\ UNCHANGED <<ManagerVars, role, LoopVars, EnvVars, tasks, fut, ready, readers, writers, sock,
                   readable, backlog, nacc, log>>

(***************************************************************************)
(* The calls made on a ProcessManager and on its RoboProcess objects       *)
(* inside the manager's with block, and the OS processes.                  *)
(***************************************************************************)
SyncVars ==
    <<traffic, loopSt, runner, stopping, ntodo, didPass, closePasses, closes, closeErr,
      tasks, fut, ready, readers, writers, timer, sock, readable, backlog, arrived,
      nacc, writable, log, step>>

CurM(op, n) ==
    [processes |-> processes, popen |-> popen, os |-> os,
     call |-> [NoCall EXCEPT !.op = op, !.n = n,
                             !.was = IF n \in ProcNames THEN popen[n] ELSE 0]]

ApplyM(P) ==
    /\ Len(P.os) <= MaxLaunches
    /\ processes' = P.processes
    /\ popen' = P.popen
    /\ os' = P.os
    /\ call' = P.call

NameArgs == {<<>>} \cup {<<n>> : n \in ProcNames \cup {UnknownName}}
Outcomes == [ProcNames -> BOOLEAN]

ManagerCreateProcess ==
    /\ role = "manager"
    /\ mgr = "open"
    /\ \E name \in ProcNames, isStr \in BOOLEAN :
          ApplyM(createProcess(CurM("createProcess", name), name, isStr))
    /\ UNCHANGED <<role, mgr, SyncVars>>

\* a call processes[n].start() on a RoboProcess
RoboStart(n) ==
    /\ role = "manager"
    /\ mgr = "open"
    /\ n \in RangeOf(processes)
    /\ \E ok \in BOOLEAN : ApplyM(start(CurM("RoboProcess.start", n), n, ok))
    /\ UNCHANGED <<role, mgr, SyncVars>>

\* a call processes[n].stop() on a RoboProcess
RoboStop(n) ==
    /\ role = "manager"
    /\ mgr = "open"
    /\ n \in RangeOf(processes)
    /\ \E exits \in BOOLEAN : ApplyM(stop(CurM("RoboProcess.stop", n), n, exits))
    /\ UNCHANGED <<role, mgr, SyncVars>>

\* ProcessManager.start(*names)
ManagerStart ==
    /\ role = "manager"
    /\ mgr = "open"
    /\ \E names \in NameArgs, ok \in Outcomes, P \in {CurM("ProcessManager.start", "")} :
          ApplyM(StartEach(P, Selected(P, names), ok))
    /\ UNCHANGED <<role, mgr, SyncVars>>

\* ProcessManager.stop(*names)
ManagerStop ==
    /\ role = "manager"
    /\ mgr = "open"
    /\ \E names \in NameArgs, exits \in Outcomes, P \in {CurM("ProcessManager.stop", "")} :
          ApplyM(StopEach(P, Selected(P, names), exits))
    /\ UNCHANGED <<role, mgr, SyncVars>>

\* ProcessManager.__exit__: the with block is left, normally or by an
\* exception of its body
ManagerExit ==
    /\ role = "manager"
    /\ mgr = "open"
    /\ \E exits \in Outcomes, P \in {CurM("ProcessManager.__exit__", "")} :
          ApplyM(StopEach(P, Selected(P, <<>>), exits))
    /\ mgr' = "exited"
    /\ UNCHANGED <<role, SyncVars>>

\* a launched process ends by itself
ProcessExits ==
    /\ role = "manager"
    /\ \E pid \in 1..Len(os) :
          /\ os[pid].st = "running"
          /\ os' = [os EXCEPT ![pid].st = "zombie"]
    /\ call' = NoCall
    /\ UNCHANGED <<role, mgr, processes, popen, SyncVars>>

Next ==
    \/ Run
    \/ Poll
    \/ RunTask
    \/ RunCallback
    \/ RunTimer
    \/ Interrupt
    \/ close
    \/ RunForeverReturn
    \/ BaseSocket
    \/ \E data \in BaseData : BaseSendto(data)
    \/ Datagram
    \/ Connect
    \/ PeerSends
    \/ SendBuffer
    \/ Tick
    \/ ManagerCreateProcess
    \/ \E n \in ProcNames : RoboStart(n)
    \/ \E n \in ProcNames : RoboStop(n)
    \/ ManagerStart
    \/ ManagerStop
    \/ ManagerExit
    \/ ProcessExits

Spec == Init /\ [][Next]_vars

\* run_forever keeps making passes: it polls, then runs every handle of the
\* pass, until it is stopped or interrupted
FairSpec ==
    Spec /\ WF_vars(Poll) /\ WF_vars(RunTask) /\ WF_vars(RunCallback) /\ WF_vars(RunTimer)

TypeOK ==
    /\ loopSt \in {"new", "running", "stopped", "closed"}
    /\ ntodo \in 0..Len(ready)
    /\ \A t \in Tasks : tasks[t].st \in {"none", "ready", "running", "waiting", "done"}
    /\ \A t \in Tasks : tasks[t].st = "waiting" => tasks[t].waiter # NoFut
    /\ \A s \in Socks : \E f \in FutIds : f[1] = s /\ f \notin Refs(Cur)
    /\ \A n \in ProcNames : popen[n] \in 0..Len(os)
    /\ Len(os) <= MaxLaunches
    /\ mgr \in {"open", "exited"}

(***************************************************************************)
(* The cells (futures) of recvfrom and sendto operations.                  *)
(***************************************************************************)
IoCells == {f \in FutIds : f[1] \in {Discover, Advertise, Base}}
Registered(f) == f # NoFut /\ (readers[f[1]] = f \/ writers[f[1]].f = f)
\* a later operation issued on the same socket has taken the callback's place
Displaced(f) == \E g \in IoCells : g # f /\ g[1] = f[1] /\ Registered(g)

\* C1: a recvfrom/sendto cell sees set_result at most once; an attempt that
\* would block leaves the cell pending (unless its task was cancelled) with
\* its readiness callback registered (as long as no later operation is
\* issued on the same socket) and the caller suspended, not failed; the
\* attempt that succeeds resolves the cell, once, and leaves no callback
\* behind that could resolve it again.
C1_SingleResolution ==
    \A f \in IoCells :
        /\ fut[f].n <= 1
        /\ fut[f].last = "block" =>
              /\ fut[f].st \in {"pending", "cancelled"}
              /\ (fut[f].st = "pending" /\ loopSt # "closed")
                    => (Registered(f) \/ Displaced(f))
              /\ \A t \in Tasks :
                    (tasks[t].waiter = f /\ fut[f].st = "pending") => tasks[t].st = "waiting"
        /\ fut[f].last = "ok" =>
              /\ fut[f].st = "result"
              /\ fut[f].n = 1
              /\ ~Registered(f)

\* a cell resolved by the attempt that followed more than one would-block
C1_Witness ==
    \E f \in IoCells : fut[f].last = "ok" /\ fut[f].b = 2 /\ fut[f].st = "result"

\* C2: an OSError of a recvfrom/sendto attempt reaches the owning task, so
\* no task stays suspended on a pending cell that has no readiness callback
\* (runs in which decode raised are left to C9).
C2_ErrorReachesTask ==
    \A t \in {Discover, Advertise} :
        (/\ loopSt # "closed"
         /\ "UnicodeDecodeError" \notin log
         /\ tasks[t].st = "waiting"
         /\ tasks[t].pc \in {"recvfrom", "sendto"}
         /\ fut[tasks[t].waiter].st = "pending")
        => Registered(tasks[t].waiter)

ListenerAlive ==
    /\ loopSt = "running"
    /\ runner = "run"
    /\ tasks[Server].st # "done"

\* C3: while the listener is alive and not cancelled, every connection that
\* arrives is eventually accepted and given a handler task of its own,
\* whatever the earlier handlers do (raise, or wait for ever for data).
C3_ListenerIsolation ==
    \A i \in 1..MaxConns :
        (arrived >= i) ~> (tasks[HandlerOf(i)].st # "none" \/ ~ListenerAlive)

\* the first handler has raised and the second connection has its handler
C3_Witness ==
    /\ tasks[HandlerOf(1)].out = "error"
    /\ tasks[HandlerOf(2)].st # "none"
    /\ ListenerAlive

Unwound == \A t \in Tasks : tasks[t].st \in {"none", "done"}

\* C4: close() makes exactly one pass of the loop, whatever the number of
\* tasks, and closes the loop only when every task has unwound.
C4_BoundedShutdown == loopSt = "closed" => (Unwound /\ closePasses = 1)

\* both listeners and two handlers, all cancelled by one close()
C4_Witness ==
    /\ loopSt = "closed"
    /\ \A t \in {Discover, Server, HandlerOf(1), HandlerOf(2)} : tasks[t].out = "cancelled"

\* C5: close() of a loop that is already closed completes without error.
C5_CloseIdempotent == ~closeErr

\* C6: the socket of a role task that has terminated is closed.
C6_RoleSocketsClosed ==
    \A t \in {Discover, Server, Advertise} : tasks[t].st = "done" => sock[t] # "open"

\* C7: an accepted connection is closed once its handler has terminated,
\* and none is open after close() has completed.
C7_ConnectionsClosed ==
    \A i \in 1..MaxConns :
        (tasks[HandlerOf(i)].st = "done" \/ loopSt = "closed") => sock[HandlerOf(i)] # "open"

FalsyData == {PyNone, JObj(<<>>), JNum(0)}

\* C8: sendto with a falsy message returns at once (None), calls
\* sock.sendto not at all and leaves the registered write callbacks as
\* they were.
C8_NoOpSend ==
    [][\A data \in FalsyData :
          BaseSendto(data) => (/\ ~step'.wrote
                               /\ writers' = writers
                               /\ step'.ret = "None")]_vars

\* a no-op send made while a write callback of an earlier send is registered
C8_Witness == step.ret = "None" /\ ~step.wrote /\ writers[Base].f # NoFut

MalformedPackets == {<<>>, NotJsonBytes, BadUtf8Bytes}

\* C9: decode of a malformed packet (empty, text that is no JSON, bytes
\* that are no UTF-8) returns None and does not raise.
C9_DecodeRobust ==
    (step.dec.k = "applied" /\ step.dec.p \in MalformedPackets)
        => (step.dec.raised = "" /\ step.dec.v = PyNone)

\* C10: a malformed datagram, read at the first attempt or by the readiness
\* callback, does not end the discover task: it goes on, suspended on a
\* cell that is resolved or has its callback.
C10_UndecodableIgnored ==
    (/\ role = "server"
     /\ traffic = "udp"
     /\ step.dec.k = "applied"
     /\ step.dec.p \in MalformedPackets)
    => /\ tasks[Discover].out # "error"
       /\ (tasks[Discover].st = "waiting" /\ fut[tasks[Discover].waiter].st = "pending")
             => Registered(tasks[Discover].waiter)

\* the packets that are well-formed JSON texts
WellFormedPackets == {EmptyObjBytes, NullBytes, PresenceBytes}

\* C11: the discover task records an observation for every message it
\* receives that is not None, the empty mapping included, and None stands
\* for no well-formed packet: a well-formed packet decodes to another value.
C11_EveryMessageObserved ==
    /\ (step.who = Discover /\ step.from = "recvfrom" /\ step.got # PyNone) => step.print
    /\ (step.dec.k = "applied" /\ step.dec.p \in WellFormedPackets /\ step.dec.raised = "")
          => step.dec.v # PyNone

\* C12: a handler task issues one receive (its first step), sends nothing,
\* and its next step ends it with the connection closed: it records one
\* observation, of the decoded payload, when the client sent a message (a
\* payload that decodes to a non-empty value, as the presence message), and
\* none when the client closed without sending, or the receive failed.
C12_OneReceiveOneObservation ==
    [][\A t \in Handlers :
          step'.who = t =>
             /\ ~step'.wrote
             /\ tasks[t].pc \in {"start", "recv"}
             /\ tasks[t].pc = "start" =>
                   /\ ~step'.print
                   /\ tasks'[t].pc = "recv" \/ tasks'[t].out = "cancelled"
             /\ tasks[t].pc = "recv" =>
                   /\ tasks'[t].st = "done"
                   /\ sock'[t] = "closed"
                   /\ step'.print =>
                         /\ step'.got = [t |-> "bytes", p |-> step'.dec.p]
                         /\ step'.dec.raised = ""
                         /\ Truthy(step'.dec.v)
                   /\ step'.got = [t |-> "bytes", p |-> <<>>] =>
                         ~step'.print /\ tasks'[t].out = "returned"
                   /\ step'.got = [t |-> "bytes", p |-> PresenceBytes] =>
                         /\ step'.print
                         /\ tasks'[t].out = "returned"
                         /\ \E now \in Times : step'.dec.v = PresenceMessage(now)]_vars

\* a handler has recorded the payload of its connection and closed it
C12_Witness ==
    /\ step.who \in Handlers
    /\ step.print
    /\ step.dec.p = PresenceBytes
    /\ tasks[step.who].out = "returned"
    /\ sock[step.who] = "closed"

\* C13: the advertise task ends only by cancellation; it issues a sendto
\* only at its start or after a sleep has run out; and while it waits for a
\* sendto the cell is resolved or has its write callback, so the next
\* sendto can still come.
C13_AdvertiserRuns ==
    /\ tasks[Advertise].st = "done" => tasks[Advertise].out = "cancelled"
    /\ (step.who = Advertise /\ step.wrote) => step.from \in {"start", "sleep"}
    /\ (/\ loopSt # "closed"
        /\ tasks[Advertise].st = "waiting"
        /\ tasks[Advertise].pc = "sendto"
        /\ fut[tasks[Advertise].waiter].st = "pending")
       => Registered(tasks[Advertise].waiter)

\* C14: stop() of a RoboProcess that holds a process returns normally, with
\* the handle cleared and the process ended: by SIGTERM alone when it ends
\* within the timeout, by SIGTERM followed by SIGKILL when it does not.
C14_StopTerminates ==
    (call.op = "RoboProcess.stop" /\ call.was # 0)
    => /\ call.raised = ""
       /\ popen[call.n] = 0
       /\ os[call.was].st = "reaped"
       /\ call.sigs \in {<< <<call.was, "SIGTERM">> >>,
                         << <<call.was, "SIGTERM">>, <<call.was, "SIGKILL">> >>}

\* the OS processes of a RoboProcess that exist (running, or ended and not
\* yet waited for)
Existing(n) == {pid \in 1..Len(os) : os[pid].owner = n /\ os[pid].st # "reaped"}
AtMostOne == \A n \in ProcNames : Cardinality(Existing(n)) <= 1

C16_ExitStopsAll ==
    mgr = "exited"
    => /\ call.op = "ProcessManager.__exit__" => call.raised = ""
       /\ \A n \in RangeOf(processes) : popen[n] = 0 \/ os[popen[n]].st # "running"

HandlesOf(q, u) == SelectSeq(q, LAMBDA h : h.id = u)

\* C17: a step in which a task ends with an error, or in which the loop
\* logs the exception of a readiness callback, leaves every other task as
\* it was (its state, the cell it waits on, its socket, its callbacks, its
\* queued handles) and the loop running.
C17_ErrorContained ==
    [][\A t \in Tasks :
          ((tasks'[t].out = "error" /\ tasks[t].out # "error")
              \/ (log' # log /\ ready # <<>> /\ Head(ready).id = t))
          => /\ loopSt' = "running"
             /\ stopping' = stopping
             /\ \A u \in Tasks \ {t} :
                   /\ tasks'[u] = tasks[u]
                   /\ sock'[u] = sock[u]
                   /\ readers'[u] = readers[u]
                   /\ writers'[u] = writers[u]
                   /\ HandlesOf(ready', u) = HandlesOf(ready, u)
                   /\ tasks[u].waiter # NoFut => fut'[tasks[u].waiter] = fut[tasks[u].waiter]]_vars

\* a task of the server has ended with an error (a handler whose receive
\* failed) while both listeners wait on
ErrorEnded(t) == step.who = t /\ tasks[t].out = "error"
C17_Witness ==
    /\ loopSt = "running"
    /\ \E t \in Handlers : ErrorEnded(t) /\ step.from = "recv"
    /\ tasks[Server].st = "waiting"
    /\ tasks[Discover].st = "waiting"

\* the invocations of the read (write) callback of a socket that are queued
LiveHandles(k, s) == {i \in 1..Len(ready) : ready[i].k = k /\ ready[i].id = s /\ ~ready[i].c}

\* the queued invocations are those of the callbacks registered now
NoStaleHandle(s) ==
    /\ \A i \in LiveHandles("reader", s) : ready[i].f = readers[s]
    /\ \A i \in LiveHandles("writer", s) : ready[i].f = writers[s].f

\* C18: a socket has at most one cell with a read callback and at most one
\* with a write callback, however many operations were issued on it; a
\* queued invocation is that of the callback registered now, never of one
\* that was removed or replaced; and once a queued invocation of a socket's
\* callback has run, no second invocation of it is left to run, even when
\* the socket was found ready twice before the first ran.
C18_OneCallbackPerSocket ==
    [][\A s \in Socks :
          /\ Cardinality({f \in FutIds : f[1] = s /\ readers'[s] = f}) <= 1
          /\ Cardinality({f \in FutIds : f[1] = s /\ writers'[s].f = f}) <= 1
          /\ NoStaleHandle(s)'
          /\ (RunCallback /\ ~Head(ready).c /\ Head(ready).id = s)
                => \A i \in 1..Len(ready') :
                      ~(/\ ready'[i].k = Head(ready).k
                        /\ ready'[i].id = s
                        /\ ready'[i].f = Head(ready).f
                        /\ ~ready'[i].c)]_vars

\* the advertise socket was found writable twice before its write callback
\* ran (once before run() was interrupted, once in close()): the callback
\* has run, the second invocation is queued but cancelled
C18_Witness ==
    /\ role = "service"
    /\ step.wrote
    /\ step.who = <<>>
    /\ \E i \in 1..Len(ready) :
          ready[i].k = "writer" /\ ready[i].id = Advertise /\ ready[i].c

\* C19: a recvfrom/sendto cell has its readiness callback registered only
\* while it is pending, so none is left for a cell that was cancelled or
\* resolved; and no callback is invoked on such a cell (its set_result would
\* raise InvalidStateError) or on a socket already closed (its
\* remove_reader/remove_writer would raise ValueError; with datagram traffic
\* only the callbacks of recvfrom and sendto run).
C19_NoLeakedCallbacks ==
    /\ \A f \in IoCells : Registered(f) => fut[f].st = "pending"
    /\ "InvalidStateError" \notin log
    /\ traffic = "udp" => "ValueError" \notin log

\* C20: from the step in which close() cancels the tasks until the loop is
\* closed no task is created, and every task that runs ends in that step,
\* cancelled: the server task cancelled with an accepted connection waiting
\* for it does not spawn the handler.
C20_NoNewWorkInShutdown ==
    [][runner' = "close"
          => \A t \in Tasks :
                /\ tasks[t].st = "none" => tasks'[t].st = "none"
                /\ tasks'[t] # tasks[t] =>
                      \/ tasks'[t].st = "done" /\ tasks'[t].out = "cancelled"
                      \/ /\ closes' = closes + 1
                         /\ tasks'[t].st = "ready"
                         /\ tasks'[t].pc = tasks[t].pc]_vars

\* the loop is closed, a connection was accepted before close() and its
\* result never delivered: the server ended cancelled, no handler exists
C20_Witness ==
    /\ loopSt = "closed"
    /\ nacc >= 1
    /\ tasks[HandlerOf(nacc)].st = "none"
    /\ tasks[Server].out = "cancelled"
====
